---- MODULE Spec2Model ----
(***************************************************************************)
(* LunataskAPI: a client with six asynchronous methods, each issuing one   *)
(* axios request and resuming when the transport settles it.  A call is    *)
(* modelled in two atomic steps, as the JavaScript event loop runs it: the *)
(* synchronous part up to the await (the request is issued), and the       *)
(* continuation after the await (try/catch, return or throw).              *)
(***************************************************************************)
EXTENDS Integers, Sequences, FiniteSets, TLC

\* ------------------------------------------------------------- bounds
MaxCalls == 2                       \* calls a caller makes on one client

Calls == 1..MaxCalls

\* --------------------------------------------------- JavaScript values
JSUndef == [t |-> "undefined"]
JSNull == [t |-> "null"]
JSStr(s) == [t |-> "string", s |-> s]
JSBool(b) == [t |-> "boolean", b |-> b]
JSArr(a) == [t |-> "array", a |-> a]
JSObj(f) == [t |-> "object", f |-> f]
EmptyFields == [k \in {} |-> JSUndef]

\* ToBoolean: undefined, null, "" and false are falsy, everything else of
\* the values used here is truthy.
Truthy(v) ==
    /\ v # JSUndef
    /\ v # JSNull
    /\ v # JSStr("")
    /\ v # JSBool(FALSE)

\* Reading a property of null or undefined throws a TypeError.
CanRead(v) == v # JSUndef /\ v # JSNull

\* v.name for a value that can be read: an own field of an object, and
\* undefined for a missing field or for a primitive.
GetProp(v, name) ==
    IF v.t = "object" /\ name \in DOMAIN v.f THEN v.f[name] ELSE JSUndef

\* a === b
StrictEq(a, b) == JSBool(a = b)

TypeError == [t |-> "error", name |-> "TypeError", code |-> "", status |-> 0]
AxiosError(code, status) ==
    [t |-> "error", name |-> "AxiosError", code |-> code, status |-> status]

\* ------------------------------------------------------------ data
\* Task values as the server reports them (types.ts, interface Task).
Task1 ==
    JSObj([id |-> JSStr("t1"), area_id |-> JSStr("A1"),
           created_at |-> JSStr("2024-01-01"), updated_at |-> JSStr("2024-01-02")])
Task2 ==
    JSObj([id |-> JSStr("t2"), area_id |-> JSStr("A1"),
           created_at |-> JSStr("2024-01-01"), updated_at |-> JSStr("2024-01-01")])

\* The inputs a caller can give: the constructor's token and the methods'
\* arguments (an optional argument left out is undefined).
Tokens == {"tokA"}
Sources == {JSUndef, JSStr(""), JSStr("todoist")}
SourceIds == {JSUndef, JSStr(""), JSStr("123")}
TaskIds == {"abc"}
CreateParams == {JSObj([area_id |-> JSStr("A1")])}
UpdateParams == {JSObj([id |-> JSStr("t1"), area_id |-> JSStr("A1"),
                        name |-> JSStr("renamed")])}

NoArgs ==
    [source |-> JSUndef, source_id |-> JSUndef, taskId |-> "", taskParams |-> JSUndef]

\* --------------------------------------------------------- transport
\* What the remote end can do with a request: the connection fails, or an
\* HTTP response with a status and a (parsed) body arrives.
NetworkFailure == [kind |-> "neterr", status |-> 0, data |-> JSUndef]
Http(status, data) == [kind |-> "http", status |-> status, data |-> data]

Pong == JSObj([message |-> JSStr("pong")])
PingBodies == {Pong, JSObj([message |-> JSStr("ping")]), JSObj(EmptyFields),
               JSNull, JSStr("")}
ListBodies == {JSObj([tasks |-> JSArr(<<Task2, Task1>>)]), JSObj(EmptyFields), JSNull}
TaskBodies == {JSObj([task |-> Task1]), JSObj(EmptyFields), JSNull}

Failures == {NetworkFailure, Http(404, JSUndef)}
Bodies(o) ==
    IF o = "ping" THEN PingBodies
    ELSE IF o = "retrieveAll" THEN ListBodies
    ELSE TaskBodies
Responses(o) == Failures \cup {Http(200, b) : b \in Bodies(o)}

\* axios settles the promise: it rejects on a network failure and on a
\* status outside 200..299 (its default validateStatus), and resolves with
\* the response otherwise.
Axios(resp) ==
    IF resp.kind = "neterr"
    THEN [rejected |-> TRUE, value |-> AxiosError("ERR_NETWORK", 0)]
    ELSE IF resp.status >= 200 /\ resp.status < 300
    THEN [rejected |-> FALSE, value |-> JSObj([data |-> resp.data])]
    ELSE [rejected |-> TRUE, value |-> AxiosError("ERR_BAD_REQUEST", resp.status)]

VARIABLES
    accessToken,    \* this.accessToken
    baseUrl,        \* this.baseUrl
    pc,             \* per call: "idle", "awaiting", "returned", "raised"
    op,             \* per call: the method called
    args,           \* per call: its arguments
    requests,       \* per call: the requests it has issued, in order
    response,       \* per call: what the transport answered
    outcome,        \* per call: the value returned or the error raised
                    \* (kind "none" until the call has finished)
    console         \* per call: the console.error entries it has emitted

vars == <<accessToken, baseUrl, pc, op, args, requests, response, outcome, console>>

Return(v) == [kind |-> "return", value |-> v, logs |-> <<>>]
Throw(e) == [kind |-> "throw", value |-> e, logs |-> <<>>]
LogEntry(msg, e) == [msg |-> msg, error |-> e]

\* ----------------------------------------------------------- requests
\* Faulty variant: the token is sent without the "bearer " scheme.
AuthHeaderNoScheme == accessToken

AuthHeader == "bearer " \o accessToken
ReadHeaders == [Authorization |-> AuthHeader]
WriteHeaders ==
    ("Authorization" :> AuthHeader) @@ ("Content-Type" :> "application/json")

Request(method, url, headers, params, data) ==
    [method |-> method, url |-> url, headers |-> headers,
     params |-> params, data |-> data]

pingRequest ==
    Request("GET", baseUrl \o "/ping", ReadHeaders, JSUndef, JSUndef)

\* Faulty variant: source_id is only looked at when source was given.
retrieveAllParamsNested(source, source_id) ==
    LET keys == IF Truthy(source)
                THEN {"source"} \cup (IF Truthy(source_id) THEN {"source_id"} ELSE {})
                ELSE {}
    IN JSObj([k \in keys |-> IF k = "source" THEN source ELSE source_id])

\* const params = {}; if (source) ...; if (source_id) ...
retrieveAllParams(source, source_id) ==
    LET keys == (IF Truthy(source) THEN {"source"} ELSE {})
                \cup (IF Truthy(source_id) THEN {"source_id"} ELSE {})
    IN JSObj([k \in keys |-> IF k = "source" THEN source ELSE source_id])

retrieveAllRequest(source, source_id) ==
    Request("GET", baseUrl \o "/tasks", ReadHeaders,
            retrieveAllParams(source, source_id), JSUndef)

retrieveSingleRequest(taskId) ==
    Request("GET", baseUrl \o "/tasks/" \o taskId, ReadHeaders, JSUndef, JSUndef)

createTaskRequest(taskParams) ==
    Request("POST", baseUrl \o "/tasks", WriteHeaders, JSUndef, taskParams)

\* Faulty variant: the update is sent with POST, as createTask sends its request.
updateTaskRequestPost(taskId, taskParams) ==
    Request("POST", baseUrl \o "/tasks/" \o taskId, WriteHeaders, JSUndef, taskParams)

updateTaskRequest(taskId, taskParams) ==
    Request("PUT", baseUrl \o "/tasks/" \o taskId, WriteHeaders, JSUndef, taskParams)

deleteTaskRequest(taskId) ==
    Request("DELETE", baseUrl \o "/tasks/" \o taskId, ReadHeaders, JSUndef, JSUndef)

\* ------------------------------------------------------ continuations
\* The try block after the await: the awaited promise rejects (the error is
\* thrown at the await), or the return expression is evaluated.
pingTry(resp) ==
    LET r == Axios(resp) IN
    IF r.rejected THEN Throw(r.value)
    ELSE LET data == GetProp(r.value, "data") IN
         \* response.data && response.data.message === 'pong'
         IF ~Truthy(data) THEN Return(data)
         ELSE Return(StrictEq(GetProp(data, "message"), JSStr("pong")))

\* Faulty variant: the catch block rethrows, as the other five methods do.
pingCatchRethrow(error) ==
    [kind |-> "throw", value |-> error,
     logs |-> <<LogEntry("Authentication failed:", error)>>]

\* Faulty variant: the catch block returns false without logging.
pingCatchSilent(error) ==
    [kind |-> "return", value |-> JSBool(FALSE), logs |-> <<>>]

\* catch (error) { console.error('Authentication failed:', error); return false; }
pingCatch(error) ==
    [kind |-> "return", value |-> JSBool(FALSE),
     logs |-> <<LogEntry("Authentication failed:", error)>>]

pingResult(resp) ==
    LET t == pingTry(resp) IN
    IF t.kind = "throw" THEN pingCatch(t.value) ELSE t

\* return response.data.<field>;
envelopeTry(resp, field) ==
    LET r == Axios(resp) IN
    IF r.rejected THEN Throw(r.value)
    ELSE LET data == GetProp(r.value, "data") IN
         IF ~CanRead(data) THEN Throw(TypeError)
         ELSE Return(GetProp(data, field))

\* Faulty variant: the error is wrapped in a new Error before it is thrown.
rethrowCatchWrapped(msg, error) ==
    [kind |-> "throw",
     value |-> [t |-> "error", name |-> "Error", code |-> msg, status |-> 0],
     logs |-> <<LogEntry(msg, error)>>]

\* catch (error) { console.error(msg, error); throw error; }
rethrowCatch(msg, error) ==
    [kind |-> "throw", value |-> error, logs |-> <<LogEntry(msg, error)>>]

\* Faulty variant: the tasks are returned in reverse of the server's order.
retrieveAllResultReversed(resp) ==
    LET t == envelopeTry(resp, "tasks") IN
    IF t.kind = "throw" THEN rethrowCatch("Error retrieving tasks:", t.value)
    ELSE IF t.value.t = "array"
    THEN Return(JSArr([i \in 1..Len(t.value.a) |-> t.value.a[Len(t.value.a) + 1 - i]]))
    ELSE t

retrieveAllResult(resp) ==
    LET t == envelopeTry(resp, "tasks") IN
    IF t.kind = "throw" THEN rethrowCatch("Error retrieving tasks:", t.value) ELSE t

retrieveSingleResult(taskId, resp) ==
    LET t == envelopeTry(resp, "task") IN
    IF t.kind = "throw"
    THEN rethrowCatch("Error retrieving task with ID " \o taskId \o ":", t.value)
    ELSE t

createTaskResult(resp) ==
    LET t == envelopeTry(resp, "task") IN
    IF t.kind = "throw" THEN rethrowCatch("Error creating task:", t.value) ELSE t

updateTaskResult(taskId, resp) ==
    LET t == envelopeTry(resp, "task") IN
    IF t.kind = "throw"
    THEN rethrowCatch("Error updating task with ID " \o taskId \o ":", t.value)
    ELSE t

deleteTaskResult(taskId, resp) ==
    LET t == envelopeTry(resp, "task") IN
    IF t.kind = "throw"
    THEN rethrowCatch("Error deleting task with ID " \o taskId \o ":", t.value)
    ELSE t

\* ------------------------------------------------------------ actions
Init ==
    /\ accessToken \in Tokens
    /\ baseUrl = "https://api.lunatask.app/v1"
    /\ pc = [c \in Calls |-> "idle"]
    /\ op = [c \in Calls |-> "none"]
    /\ args = [c \in Calls |-> NoArgs]
    /\ requests = [c \in Calls |-> <<>>]
    /\ response = [c \in Calls |-> NetworkFailure]
    /\ outcome = [c \in Calls |-> [kind |-> "none", value |-> JSUndef]]
    /\ console = [c \in Calls |-> <<>>]

\* The caller invokes method o with arguments a: the function runs up to
\* its await, where request req has been handed to axios.
Issue(c, o, a, req) ==
    /\ pc[c] = "idle"
    /\ pc' = [pc EXCEPT ![c] = "awaiting"]
    /\ op' = [op EXCEPT ![c] = o]
    /\ args' = [args EXCEPT ![c] = a]
    /\ requests' = [requests EXCEPT ![c] = Append(@, req)]
    /\ UNCHANGED <<accessToken, baseUrl, response, outcome, console>>

\* Faulty variant: a rejected request aborts every request in flight, so a failure
\* of call c also fails the other calls that are awaiting.
ResumeAbortsOthers(c, resp, res) ==
    LET hit == IF res.kind = "throw"
               THEN {d \in Calls : d = c \/ pc[d] = "awaiting"} ELSE {c}
    IN
    /\ pc' = [d \in Calls |-> IF d \in hit
                               THEN IF res.kind = "return" THEN "returned" ELSE "raised"
                               ELSE pc[d]]
    /\ response' = [d \in Calls |-> IF d \in hit THEN resp ELSE response[d]]
    /\ outcome' = [d \in Calls |-> IF d \in hit
                                    THEN [kind |-> res.kind, value |-> res.value]
                                    ELSE outcome[d]]
    /\ console' = [console EXCEPT ![c] = @ \o res.logs]
    /\ UNCHANGED <<accessToken, baseUrl, op, args, requests>>

\* The transport settles the request of call c with resp and the function
\* resumes after its await, ending with result res.
Resume(c, resp, res) ==
    /\ pc' = [pc EXCEPT ![c] = IF res.kind = "return" THEN "returned" ELSE "raised"]
    /\ response' = [response EXCEPT ![c] = resp]
    /\ outcome' = [outcome EXCEPT ![c] = [kind |-> res.kind, value |-> res.value]]
    /\ console' = [console EXCEPT ![c] = @ \o res.logs]
    /\ UNCHANGED <<accessToken, baseUrl, op, args, requests>>

Awaiting(c, o) == pc[c] = "awaiting" /\ op[c] = o

ping(c) == Issue(c, "ping", NoArgs, pingRequest)

pingSettle(c) ==
    /\ Awaiting(c, "ping")
    /\ \E resp \in Responses("ping") : Resume(c, resp, pingResult(resp))

retrieveAll(c) ==
    \E source \in Sources, source_id \in SourceIds :
        Issue(c, "retrieveAll",
              [NoArgs EXCEPT !.source = source, !.source_id = source_id],
              retrieveAllRequest(source, source_id))

retrieveAllSettle(c) ==
    /\ Awaiting(c, "retrieveAll")
    /\ \E resp \in Responses("retrieveAll") : Resume(c, resp, retrieveAllResult(resp))

retrieveSingle(c) ==
    \E taskId \in TaskIds :
        Issue(c, "retrieveSingle", [NoArgs EXCEPT !.taskId = taskId],
              retrieveSingleRequest(taskId))

retrieveSingleSettle(c) ==
    /\ Awaiting(c, "retrieveSingle")
    /\ \E resp \in Responses("retrieveSingle") :
           Resume(c, resp, retrieveSingleResult(args[c].taskId, resp))

createTask(c) ==
    \E taskParams \in CreateParams :
        Issue(c, "createTask", [NoArgs EXCEPT !.taskParams = taskParams],
              createTaskRequest(taskParams))

createTaskSettle(c) ==
    /\ Awaiting(c, "createTask")
    /\ \E resp \in Responses("createTask") : Resume(c, resp, createTaskResult(resp))

updateTask(c) ==
    \E taskId \in TaskIds, taskParams \in UpdateParams :
        Issue(c, "updateTask",
              [NoArgs EXCEPT !.taskId = taskId, !.taskParams = taskParams],
              updateTaskRequest(taskId, taskParams))

updateTaskSettle(c) ==
    /\ Awaiting(c, "updateTask")
    /\ \E resp \in Responses("updateTask") :
           Resume(c, resp, updateTaskResult(args[c].taskId, resp))

deleteTask(c) ==
    \E taskId \in TaskIds :
        Issue(c, "deleteTask", [NoArgs EXCEPT !.taskId = taskId],
              deleteTaskRequest(taskId))

deleteTaskSettle(c) ==
    /\ Awaiting(c, "deleteTask")
    /\ \E resp \in Responses("deleteTask") :
           Resume(c, resp, deleteTaskResult(args[c].taskId, resp))

Next ==
    \E c \in Calls :
        \/ ping(c)
        \/ pingSettle(c)
        \/ retrieveAll(c)
        \/ retrieveAllSettle(c)
        \/ retrieveSingle(c)
        \/ retrieveSingleSettle(c)
        \/ createTask(c)
        \/ createTaskSettle(c)
        \/ updateTask(c)
        \/ updateTaskSettle(c)
        \/ deleteTask(c)
        \/ deleteTaskSettle(c)

Spec == Init /\ [][Next]_vars

\* --------------------------------------------------------- properties
Done == {"returned", "raised"}
PropagatingOps ==
    {"retrieveAll", "retrieveSingle", "createTask", "updateTask", "deleteTask"}
Finished(c, o) == op[c] = o /\ pc[c] \in Done

\* The response is an HTTP response with a 2xx status.
Is2xx(resp) == resp.kind = "http" /\ resp.status \in 200..299
\* The transport reports a failure: a network failure or a non-2xx status.
TransportFailed(resp) == ~Is2xx(resp)
\* The error the transport produced for a failed request.
TransportError(resp) == Axios(resp).value
HasField(v, name) == v.t = "object" /\ name \in DOMAIN v.f
\* The field of the response envelope a method returns.
Envelope(o) == IF o = "retrieveAll" THEN "tasks" ELSE "task"
\* A 2xx response whose body has the envelope field of method o.
WellFormed(resp, o) == Is2xx(resp) /\ HasField(resp.data, Envelope(o))
IsPong(resp) ==
    /\ Is2xx(resp)
    /\ HasField(resp.data, "message")
    /\ resp.data.f["message"] = JSStr("pong")

\* The wire table of the interface: method and path of each operation.
WireMethod(o) ==
    CASE o \in {"ping", "retrieveAll", "retrieveSingle"} -> "GET"
      [] o = "createTask" -> "POST"
      [] o = "updateTask" -> "PUT"
      [] o = "deleteTask" -> "DELETE"
WirePath(o, a) ==
    CASE o = "ping" -> "/ping"
      [] o \in {"retrieveAll", "createTask"} -> "/tasks"
      [] o \in {"retrieveSingle", "updateTask", "deleteTask"} -> "/tasks/" \o a.taskId

\* C1: ping never raises: whatever the transport answers (network failure,
\* non-2xx status, 2xx with any body), a finished ping has returned a value.
C1_PingNeverRaises ==
    \A c \in Calls :
        op[c] = "ping" =>
            /\ pc[c] # "raised"
            /\ pc[c] = "returned" => outcome[c].kind = "return"

\* Two pings have returned, one after a network failure and one after a 2xx
\* response with a null body.
C1_Witness ==
    \E c, d \in Calls :
        /\ Finished(c, "ping") /\ response[c] = NetworkFailure /\ pc[c] = "returned"
        /\ Finished(d, "ping") /\ response[d] = Http(200, JSNull) /\ pc[d] = "returned"

\* C2: ping returns the boolean true if the endpoint answered 2xx with a body
\* whose message is "pong", and the boolean false in every other case.
C2_PingTrueIffPong ==
    \A c \in Calls :
        Finished(c, "ping") =>
            /\ outcome[c].kind = "return"
            /\ outcome[c].value = JSBool(IsPong(response[c]))

\* C3: for the five propagating operations, a transport failure ends the call
\* by raising the very error the transport produced, after one log entry
\* carrying that error has been emitted; no value is returned.
C3_FailureLoggedAndRethrown ==
    \A c \in Calls :
        (op[c] \in PropagatingOps /\ pc[c] \in Done /\ TransportFailed(response[c])) =>
            /\ pc[c] = "raised"
            /\ outcome[c] = [kind |-> "throw", value |-> TransportError(response[c])]
            /\ Len(console[c]) = 1
            /\ console[c][1].error = TransportError(response[c])

\* A deleteTask has raised after a network failure and a retrieveAll after
\* a 404.
C3_Witness ==
    \E c, d \in Calls :
        /\ Finished(c, "deleteTask") /\ response[c] = NetworkFailure /\ pc[c] = "raised"
        /\ Finished(d, "retrieveAll") /\ response[d] = Http(404, JSUndef)
        /\ pc[d] = "raised"

\* C4: a call that has not started has issued nothing; a call that has
\* started, whether in flight, returned or raised, has issued exactly one
\* request, with the method and the path of the wire table.
C4_ExactlyOneRequest ==
    \A c \in Calls :
        /\ pc[c] = "idle" => requests[c] = <<>>
        /\ pc[c] # "idle" =>
              /\ Len(requests[c]) = 1
              /\ requests[c][1].method = WireMethod(op[c])
              /\ requests[c][1].url =
                     "https://api.lunatask.app/v1" \o WirePath(op[c], args[c])

\* An updateTask has raised after a failure and a deleteTask has returned,
\* each with its single request on the wire.
C4_Witness ==
    \E c, d \in Calls :
        /\ Finished(c, "updateTask") /\ pc[c] = "raised" /\ Len(requests[c]) = 1
        /\ requests[c][1].method = "PUT"
        /\ Finished(d, "deleteTask") /\ pc[d] = "returned" /\ Len(requests[d]) = 1
        /\ requests[d][1].url = "https://api.lunatask.app/v1/tasks/abc"

\* C5: every request issued carries Authorization: bearer <token> with the
\* constructor's token, and the token and the base URL keep their values
\* from construction through every call, successful or failed.
C5_BearerTokenFixed ==
    /\ accessToken \in Tokens
    /\ baseUrl = "https://api.lunatask.app/v1"
    /\ \A c \in Calls :
          \A i \in 1..Len(requests[c]) :
              /\ "Authorization" \in DOMAIN requests[c][i].headers
              /\ requests[c][i].headers["Authorization"] = "bearer " \o accessToken

\* A createTask has raised and a ping has returned; both requests carried
\* the bearer token.
C5_Witness ==
    \E c, d \in Calls :
        /\ Finished(c, "createTask") /\ pc[c] = "raised"
        /\ requests[c][1].headers["Authorization"] = "bearer tokA"
        /\ Finished(d, "ping")
        /\ requests[d][1].headers["Authorization"] = "bearer tokA"

\* The query parameters of the request of retrieveAll call c.
SentParams(c) == requests[c][1].params.f

\* C6 (as claimed): source is sent iff the source argument is provided,
\* source_id iff the sourceId argument is provided, the empty string
\* included, each with the value given.
C6_ParamsIffProvided ==
    \A c \in Calls :
        (op[c] = "retrieveAll" /\ pc[c] # "idle") =>
            /\ "source" \in DOMAIN SentParams(c) <=> args[c].source # JSUndef
            /\ "source_id" \in DOMAIN SentParams(c) <=> args[c].source_id # JSUndef
            /\ \A k \in DOMAIN SentParams(c) : SentParams(c)[k] = args[c][k]

\* C6 (amended): source is sent iff the source argument is a non-empty
\* string, source_id iff the sourceId argument is a non-empty string, each
\* with the value given and each decided independently of the other; an
\* argument left out or given as the empty string sends no parameter.
C6_ParamsIffNonEmpty ==
    \A c \in Calls :
        (op[c] = "retrieveAll" /\ pc[c] # "idle") =>
            /\ requests[c][1].params.t = "object"
            /\ "source" \in DOMAIN SentParams(c)
                   <=> args[c].source \notin {JSUndef, JSStr("")}
            /\ "source_id" \in DOMAIN SentParams(c)
                   <=> args[c].source_id \notin {JSUndef, JSStr("")}
            /\ DOMAIN SentParams(c) \subseteq {"source", "source_id"}
            /\ \A k \in DOMAIN SentParams(c) : SentParams(c)[k] = args[c][k]

\* One retrieveAll was called with source "" and source_id "123" and sent
\* only source_id; another was called with source "todoist" alone and sent
\* only source.
C6_Witness ==
    \E c, d \in Calls :
        /\ op[c] = "retrieveAll" /\ pc[c] # "idle"
        /\ args[c].source = JSStr("") /\ args[c].source_id = JSStr("123")
        /\ SentParams(c) = [source_id |-> JSStr("123")]
        /\ op[d] = "retrieveAll" /\ pc[d] # "idle"
        /\ args[d].source = JSStr("todoist") /\ args[d].source_id = JSUndef
        /\ SentParams(d) = [source |-> JSStr("todoist")]

\* C7: for the five propagating operations, a 2xx response with a malformed
\* body (absent or null, or without the envelope field) ends the call by
\* raising an error after a log entry; no value is returned.
C7_MalformedBodyRaises ==
    \A c \in Calls :
        (op[c] \in PropagatingOps /\ pc[c] \in Done
            /\ Is2xx(response[c]) /\ ~WellFormed(response[c], op[c])) =>
            /\ pc[c] = "raised"
            /\ Len(console[c]) >= 1

\* C8: on a 2xx response with a well-formed envelope, the call returns the
\* envelope's field exactly as the server sent it (the tasks in the server's
\* order) and logs nothing; the body createTask and updateTask send is the
\* params argument unchanged.
C8_ReturnsWhatServerReported ==
    \A c \in Calls :
        /\ (op[c] \in PropagatingOps /\ pc[c] \in Done
               /\ WellFormed(response[c], op[c])) =>
              /\ pc[c] = "returned"
              /\ outcome[c] =
                     [kind |-> "return", value |-> response[c].data.f[Envelope(op[c])]]
              /\ console[c] = <<>>
        /\ (op[c] \in {"createTask", "updateTask"} /\ pc[c] # "idle") =>
              requests[c][1].data = args[c].taskParams

\* A retrieveAll has returned the two tasks in the server's order, and an
\* updateTask has returned the server's task after sending its params.
C8_Witness ==
    \E c, d \in Calls :
        /\ Finished(c, "retrieveAll")
        /\ outcome[c] = [kind |-> "return", value |-> JSArr(<<Task2, Task1>>)]
        /\ Finished(d, "updateTask")
        /\ outcome[d] = [kind |-> "return", value |-> Task1]
        /\ requests[d][1].data \in UpdateParams

\* C9 (as claimed): a ping that ends with a result other than true has
\* emitted a log entry, and a ping that returns true has emitted none.
C9_PingFailureLogged ==
    \A c \in Calls :
        Finished(c, "ping") =>
            /\ outcome[c].value # JSBool(TRUE) => Len(console[c]) >= 1
            /\ outcome[c].value = JSBool(TRUE) => console[c] = <<>>

\* C9 (amended): a ping emits a log entry exactly when the transport fails
\* (network failure or non-2xx status), and the entry carries the
\* transport's error; a ping that got a 2xx response emits none, whether it
\* returns true or, for a mismatched body, a non-true result.
C9_PingLogsTransportFailure ==
    \A c \in Calls :
        Finished(c, "ping") =>
            /\ TransportFailed(response[c]) =>
                  /\ outcome[c].value # JSBool(TRUE)
                  /\ console[c] =
                         <<LogEntry("Authentication failed:", TransportError(response[c]))>>
            /\ Is2xx(response[c]) => console[c] = <<>>
            /\ outcome[c].value = JSBool(TRUE) => console[c] = <<>>

\* One ping ended in failure after a 404 with its log entry, another ended
\* with a non-true result after a mismatched 2xx body with no log entry.
C9_Witness ==
    \E c, d \in Calls :
        /\ Finished(c, "ping") /\ response[c] = Http(404, JSUndef)
        /\ Len(console[c]) = 1
        /\ Finished(d, "ping")
        /\ response[d] = Http(200, JSObj([message |-> JSStr("ping")]))
        /\ outcome[d].value = JSBool(FALSE) /\ console[d] = <<>>

\* Everything the model holds about call c.
CallState(c) ==
    <<pc[c], op[c], args[c], requests[c], response[c], outcome[c], console[c]>>

\* Two finished calls of the same operation with the same arguments and the
\* same response have the same outcome and the same log entries.
C10_Determined ==
    \A c, d \in Calls :
        (pc[c] \in Done /\ pc[d] \in Done /\ op[c] = op[d] /\ args[c] = args[d]
            /\ response[c] = response[d]) =>
            (outcome[c] = outcome[d] /\ console[c] = console[d]
                /\ pc[c] = pc[d] /\ requests[c] = requests[d])

\* A step acts on one call only; a response is delivered to a call that is
\* awaiting one, and a finished call is never touched again.
C10_Step ==
    \A c \in Calls :
        /\ CallState(c)' # CallState(c) =>
              \A d \in Calls \ {c} : CallState(d)' = CallState(d)
        /\ pc[c] \in Done => CallState(c)' = CallState(c)
        /\ (response'[c] # response[c] \/ outcome'[c] # outcome[c]
               \/ console'[c] # console[c]) =>
              (pc[c] = "awaiting" /\ pc'[c] \in Done)

\* C10: concurrent calls on one client are independent: in every
\* interleaving of calls and of response arrivals, a step issues or settles
\* exactly one call and leaves every other call (in flight or finished) as it
\* was, a response reaches only a call that awaits one, and a call's outcome
\* is a function of its own operation, arguments and response.
C10_Independent == []C10_Determined /\ [][C10_Step]_vars

\* A call is still in flight while another call of the same operation has
\* already failed.
C10_Witness ==
    \E c, d \in Calls :
        /\ c # d
        /\ op[c] = "retrieveSingle" /\ pc[c] = "awaiting"
        /\ op[d] = "retrieveSingle" /\ pc[d] = "raised"

====
